---- MODULE Spec2Model ----
\* Model of the GPMF KLV decoder in src/src/main.rs.
\* The input buffer is a sequence of byte values (0..255); positions are
\* 0-based offsets, so the byte at offset p is buf[p+1].  A decode of one
\* record returns [st, nx, v]: st is "ok" or the nom outcome the code
\* produces ("Incomplete" for nom::Err::Incomplete, "Error:Tag" for
\* nom::Err::Error(Tag), "Failure:Tag" for nom::Err::Failure(Tag)) or
\* "Panic" for an assert!/unwrap()/panic! abort; "StackOverflow" for the
\* abort when the recursion of nested containers exhausts the stack.
EXTENDS Integers, Sequences, FiniteSets, TLC

VARIABLES buf, pos, levels, status, last

vars == <<buf, pos, levels, status, last>>

\* ---------------------------------------------------------------- bytes
\* ASCII codes of the tag bytes the decoders compare against.
Ch_s == 115
Ch_l == 108
Ch_L == 76
Ch_c == 99
Ch_f == 102
Ch_S == 83
Ch_J == 74
Ch_U == 85
Ch_F == 70
Ch_B == 66
Ch_b == 98
Ch_Q == 63
Ch_2 == 50
NoAssert == -1

\* The 4-byte type keys of the match in parse_block.
KeyBytes == [DEVC |-> <<68,69,86,67>>, DVID |-> <<68,86,73,68>>,
             DVNM |-> <<68,86,78,77>>, STRM |-> <<83,84,82,77>>,
             STMP |-> <<83,84,77,80>>, TSMP |-> <<84,83,77,80>>,
             STNM |-> <<83,84,78,77>>, ORIN |-> <<79,82,73,78>>,
             SIUN |-> <<83,73,85,78>>, UNIT |-> <<85,78,73,84>>,
             SCAL |-> <<83,67,65,76>>, TMPC |-> <<84,77,80,67>>,
             ACCL |-> <<65,67,67,76>>, GYRO |-> <<71,89,82,79>>,
             SHUT |-> <<83,72,85,84>>, WBAL |-> <<87,66,65,76>>,
             WRGB |-> <<87,82,71,66>>, ISOE |-> <<73,83,79,69>>,
             UNIF |-> <<85,78,73,70>>, TYPE |-> <<84,89,80,69>>,
             GPSF |-> <<71,80,83,70>>, GPSU |-> <<71,80,83,85>>,
             GPSP |-> <<71,80,83,80>>, GPSA |-> <<71,80,83,65>>,
             GPS5 |-> <<71,80,83,53>>, CORI |-> <<67,79,82,73>>,
             IORI |-> <<73,79,82,73>>, GRAV |-> <<71,82,65,86>>,
             WNDM |-> <<87,78,68,77>>, MWET |-> <<77,87,69,84>>,
             AALP |-> <<65,65,76,80>>, MSKP |-> <<77,83,75,80>>,
             LRVO |-> <<76,82,86,79>>, LRVS |-> <<76,82,86,83>>,
             LSKP |-> <<76,83,75,80>>]

KnownKeys == DOMAIN KeyBytes
ContainerKeys == {"DEVC", "STRM"}

\* Name of the decoder a 4-byte key dispatches to ("other": parse_custom).
KeyName(kb) == IF \E n \in KnownKeys : KeyBytes[n] = kb
               THEN CHOOSE n \in KnownKeys : KeyBytes[n] = kb
               ELSE "other"

\* ------------------------------------------------------------ byte reads
Has(p, e, n) == p + n <= e
B(b, p) == b[p + 1]
U16(b, p) == B(b, p) * 256 + B(b, p + 1)
I8(b, p) == IF B(b, p) >= 128 THEN B(b, p) - 256 ELSE B(b, p)
I16(b, p) == IF U16(b, p) >= 32768 THEN U16(b, p) - 65536 ELSE U16(b, p)
I32(b, p) == I8(b, p) * 16777216 + B(b, p + 1) * 65536 + B(b, p + 2) * 256 + B(b, p + 3)
\* u32 / f32 bit patterns / u64 are kept as big-endian 16-bit limbs.
U32(b, p) == <<U16(b, p), U16(b, p + 2)>>
F32(b, p) == U32(b, p)
U64(b, p) == <<U16(b, p), U16(b, p + 2), U16(b, p + 4), U16(b, p + 6)>>
Take(b, p, n) == SubSeq(b, p + 1, p + n)

R(st, nx, v) == [st |-> st, nx |-> nx, v |-> v]
Fail(st) == R(st, -1, <<>>)

\* nom::bytes::streaming::tag for a one-byte tag.
TagSt(b, p, e, t) == IF ~Has(p, e, 1) THEN "Incomplete"
                     ELSE IF B(b, p) = t THEN "ok" ELSE "Error:Tag"

\* nom::bytes::streaming::tag(&[0,0]): compares the available prefix.
Tag00St(b, p, e) ==
  IF Has(p, e, 1) /\ B(b, p) # 0 THEN "Error:Tag"
  ELSE IF Has(p, e, 2) /\ B(b, p + 1) # 0 THEN "Error:Tag"
  ELSE IF Has(p, e, 2) THEN "ok" ELSE "Incomplete"

\* tag, be_u8 size, assert_eq!(size, sz), be_u16 count, assert_eq!(count, ct)
HdrRead(b, p, e, t, sz, ct) ==
  LET ts == TagSt(b, p, e, t) IN
  IF ts # "ok" THEN [st |-> ts, size |-> 0, count |-> 0]
  ELSE IF ~Has(p + 1, e, 1) THEN [st |-> "Incomplete", size |-> 0, count |-> 0]
  ELSE IF sz # NoAssert /\ B(b, p + 1) # sz THEN [st |-> "Panic", size |-> 0, count |-> 0]
  ELSE IF ~Has(p + 2, e, 2) THEN [st |-> "Incomplete", size |-> 0, count |-> 0]
  ELSE IF ct # NoAssert /\ U16(b, p + 2) # ct THEN [st |-> "Panic", size |-> 0, count |-> 0]
  ELSE [st |-> "ok", size |-> B(b, p + 1), count |-> U16(b, p + 2)]

\* take(4 - dl % 4) when dl % 4 != 0
Pad(b, q, e, dl, v) ==
  IF dl % 4 # 0
  THEN IF Has(q, e, 4 - (dl % 4)) THEN R("ok", q + 4 - (dl % 4), v) ELSE Fail("Incomplete")
  ELSE R("ok", q, v)

\* ------------------------------------------------------ element readers
E_I16(b, q) == I16(b, q)
E_U16(b, q) == U16(b, q)
E_I32(b, q) == I32(b, q)
E_F32(b, q) == F32(b, q)
\* Variant reading the triplet components little-endian.
E_I16x3LE(b, q) == <<LET u == B(b, q + 1) * 256 + B(b, q) IN IF u >= 32768 THEN u - 65536 ELSE u,
                     LET u == B(b, q + 3) * 256 + B(b, q + 2) IN IF u >= 32768 THEN u - 65536 ELSE u,
                     LET u == B(b, q + 5) * 256 + B(b, q + 4) IN IF u >= 32768 THEN u - 65536 ELSE u>>
E_I16x3(b, q) == <<I16(b, q), I16(b, q + 2), I16(b, q + 4)>>
E_I16x4(b, q) == <<I16(b, q), I16(b, q + 2), I16(b, q + 4), I16(b, q + 6)>>
E_F32x3(b, q) == <<F32(b, q), F32(b, q + 4), F32(b, q + 8)>>
E_U8x2(b, q) == <<B(b, q), B(b, q + 1)>>
E_U8x3(b, q) == <<B(b, q), B(b, q + 1), B(b, q + 2)>>
E_I8x2(b, q) == <<I8(b, q), I8(b, q + 1)>>
E_Take4(b, q) == Take(b, q, 4)

\* The element reader named by f.
Elem(f, b, q) ==
  CASE f = "E_I16"   -> E_I16(b, q)
    [] f = "E_U16"   -> E_U16(b, q)
    [] f = "E_I32"   -> E_I32(b, q)
    [] f = "E_F32"   -> E_F32(b, q)
    [] f = "E_I16x3" -> E_I16x3(b, q)
    [] f = "E_I16x4" -> E_I16x4(b, q)
    [] f = "E_F32x3" -> E_F32x3(b, q)
    [] f = "E_U8x2"  -> E_U8x2(b, q)
    [] f = "E_U8x3"  -> E_U8x3(b, q)
    [] f = "E_I8x2"  -> E_I8x2(b, q)
    [] f = "E_Take4" -> E_Take4(b, q)
    [] f = "U32"     -> U32(b, q)
    [] f = "F32"     -> F32(b, q)
    [] f = "U64"     -> U64(b, q)

\* for _ in 0..n { element of w bytes read by f }: the loop fails with
\* Incomplete at the first element that is not fully present.
ReadList(b, q, e, n, w, f) ==
  IF ~Has(q, e, n * w) THEN Fail("Incomplete")
  ELSE R("ok", q + n * w, [i \in 1..n |-> Elem(f, b, q + (i - 1) * w)])



\* ------------------------------------------------------------- UTF-8
\* std::str::from_utf8 validity (well-formed UTF-8, no surrogates, <= U+10FFFF)
Cont(x) == x >= 128 /\ x <= 191
RECURSIVE Utf8From(_, _)
Utf8From(s, i) ==
  IF i > Len(s) THEN TRUE
  ELSE LET c == s[i] IN
  IF c < 128 THEN Utf8From(s, i + 1)
  ELSE IF c >= 194 /\ c <= 223
       THEN i + 1 <= Len(s) /\ Cont(s[i + 1]) /\ Utf8From(s, i + 2)
  ELSE IF c >= 224 /\ c <= 239
       THEN i + 2 <= Len(s)
            /\ s[i + 1] >= (IF c = 224 THEN 160 ELSE 128)
            /\ s[i + 1] <= (IF c = 237 THEN 159 ELSE 191)
            /\ Cont(s[i + 2]) /\ Utf8From(s, i + 3)
  ELSE IF c >= 240 /\ c <= 244
       THEN i + 3 <= Len(s)
            /\ s[i + 1] >= (IF c = 240 THEN 144 ELSE 128)
            /\ s[i + 1] <= (IF c = 244 THEN 143 ELSE 191)
            /\ Cont(s[i + 2]) /\ Cont(s[i + 3]) /\ Utf8From(s, i + 4)
  ELSE FALSE
Utf8Ok(s) == Utf8From(s, 1)

\* -------------------------------------------------- payload decoders
\* Single scalar: tag, size == sz, count == 1, one value of sz bytes, no padding.
ParseFixed(b, p, e, t, sz, f) ==
  LET h == HdrRead(b, p, e, t, sz, 1) IN
  IF h.st # "ok" THEN Fail(h.st)
  ELSE IF ~Has(p + 4, e, sz) THEN Fail("Incomplete")
  ELSE R("ok", p + 4 + sz, Elem(f, b, p + 4))


ParseDvid(b, p, e) == ParseFixed(b, p, e, Ch_L, 4, "E_Take4")
ParseStmp(b, p, e) == ParseFixed(b, p, e, Ch_J, 8, "U64")
ParseTsmp(b, p, e) == ParseFixed(b, p, e, Ch_L, 4, "U32")
ParseTmpc(b, p, e) == ParseFixed(b, p, e, Ch_f, 4, "F32")
ParseGpsf(b, p, e) == ParseFixed(b, p, e, Ch_L, 4, "U32")
ParseGpsa(b, p, e) == ParseFixed(b, p, e, Ch_F, 4, "E_Take4")

\* Text: tag, [assert count], take(size*count), from_utf8().unwrap(), padding.
ParseText(b, p, e, t, ct) ==
  LET h == HdrRead(b, p, e, t, NoAssert, ct)
      n == h.size * h.count IN
  IF h.st # "ok" THEN Fail(h.st)
  ELSE IF ~Has(p + 4, e, n) THEN Fail("Incomplete")
  ELSE LET txt == Take(b, p + 4, n) IN
       IF ~Utf8Ok(txt) THEN Fail("Panic")
       ELSE Pad(b, p + 4 + n, e, n, txt)

ParseDvnm(b, p, e) == ParseText(b, p, e, Ch_c, NoAssert)
ParseStnm(b, p, e) == ParseText(b, p, e, Ch_c, NoAssert)
ParseOrin(b, p, e) == ParseText(b, p, e, Ch_c, NoAssert)
ParseType(b, p, e) == ParseText(b, p, e, Ch_c, NoAssert)
ParseGpsu(b, p, e) == ParseText(b, p, e, Ch_U, 1)

\* Variant replacing only the final 0xb2 byte.
SiunSubstLast(s) == [i \in 1..Len(s) |-> IF i = Len(s) /\ s[i] = 178 THEN Ch_2 ELSE s[i]]
\* parse_siun: every 0xb2 byte of the taken text becomes b'2'.
SiunSubst(s) == [i \in 1..Len(s) |-> IF s[i] = 178 THEN Ch_2 ELSE s[i]]
\* Variant taking (size - 1) * count text bytes.
ParseSiunShort(b, p, e) ==
  LET h == HdrRead(b, p, e, Ch_c, NoAssert, NoAssert)
      n == (h.size - 1) * h.count IN
  IF h.st # "ok" THEN Fail(h.st)
  ELSE IF ~Has(p + 4, e, n) THEN Fail("Incomplete")
  ELSE LET txt == SiunSubst(Take(b, p + 4, n)) IN
       IF ~Utf8Ok(txt) THEN Fail("Panic")
       ELSE Pad(b, p + 4 + n, e, n, txt)
ParseSiun(b, p, e) ==
  LET h == HdrRead(b, p, e, Ch_c, NoAssert, NoAssert)
      n == h.size * h.count IN
  IF h.st # "ok" THEN Fail(h.st)
  ELSE IF ~Has(p + 4, e, n) THEN Fail("Incomplete")
  ELSE LET txt == SiunSubst(Take(b, p + 4, n)) IN
       IF ~Utf8Ok(txt) THEN Fail("Panic")
       ELSE Pad(b, p + 4 + n, e, n, txt)

\* Tuple list: tag, size == sz, count, count elements of w bytes, padding
\* computed as the code computes it: dlk = "6n" (6 * measurements.len()),
\* "12n" (12 * measurements.len()), "sc" (size * count) or "none".
TupleList(b, p, e, t, sz, w, f, dlk) ==
  LET h == HdrRead(b, p, e, t, sz, NoAssert) IN
  IF h.st # "ok" THEN Fail(h.st)
  ELSE LET l == ReadList(b, p + 4, e, h.count, w, f) IN
  IF l.st # "ok" THEN l
  ELSE CASE dlk = "6n"  -> Pad(b, l.nx, e, 6 * Len(l.v), l.v)
         [] dlk = "12n" -> Pad(b, l.nx, e, 12 * Len(l.v), l.v)
         [] dlk = "sc"  -> Pad(b, l.nx, e, h.size * h.count, l.v)
         [] OTHER       -> l

ParseAccl(b, p, e) == TupleList(b, p, e, Ch_s, 6, 6, "E_I16x3", "6n")
ParseGyro(b, p, e) == TupleList(b, p, e, Ch_s, 6, 6, "E_I16x3", "6n")
ParseShut(b, p, e) == TupleList(b, p, e, Ch_f, 4, 4, "E_F32", "6n")
ParseWbal(b, p, e) == TupleList(b, p, e, Ch_S, 2, 2, "E_U16", "6n")
ParseWrgb(b, p, e) == TupleList(b, p, e, Ch_f, 12, 12, "E_F32x3", "12n")
ParseIsoe(b, p, e) == TupleList(b, p, e, Ch_S, 2, 2, "E_U16", "6n")
ParseUnif(b, p, e) == TupleList(b, p, e, Ch_f, 4, 4, "E_F32", "6n")
ParseCori(b, p, e) == TupleList(b, p, e, Ch_s, 8, 8, "E_I16x4", "none")
ParseIori(b, p, e) == TupleList(b, p, e, Ch_s, 8, 8, "E_I16x4", "none")
ParseGrav(b, p, e) == TupleList(b, p, e, Ch_s, 6, 6, "E_I16x3", "6n")
ParseWndm(b, p, e) == TupleList(b, p, e, Ch_B, 2, 2, "E_U8x2", "sc")
ParseMwet(b, p, e) == TupleList(b, p, e, Ch_B, 3, 3, "E_U8x3", "sc")
ParseAalp(b, p, e) == TupleList(b, p, e, Ch_b, 2, 2, "E_I8x2", "sc")
ParseMskp(b, p, e) == TupleList(b, p, e, Ch_s, 2, 2, "E_I16", "sc")
ParseLskp(b, p, e) == TupleList(b, p, e, Ch_s, 2, 2, "E_I16", "sc")

\* parse_scal: take(1) then branch on b"s" / b"l", else panic!.
ParseScal(b, p, e) ==
  IF ~Has(p, e, 1) THEN Fail("Incomplete")
  ELSE IF B(b, p) = Ch_s
  THEN LET h == HdrRead(b, p, e, Ch_s, 2, 1) IN
       IF h.st # "ok" THEN Fail(h.st)
       ELSE IF ~Has(p + 4, e, 2) THEN Fail("Incomplete")
       ELSE IF ~Has(p + 6, e, 2) THEN Fail("Incomplete")
       ELSE R("ok", p + 8, I16(b, p + 4))
  ELSE IF B(b, p) = Ch_l
  THEN LET h == HdrRead(b, p, e, Ch_l, 4, NoAssert) IN
       IF h.st # "ok" THEN Fail(h.st)
       ELSE ReadList(b, p + 4, e, h.count, 4, "E_I32")
  ELSE Fail("Panic")

\* parse_lrvo / parse_lrvs: tag b, size 1, count 1, be_i8, take(3).
\* Variant returning the stale input (the offset right after the key).
ParseLrvStale(b, p, e) ==
  LET h == HdrRead(b, p, e, Ch_b, 1, 1) IN
  IF h.st # "ok" THEN Fail(h.st)
  ELSE IF ~Has(p + 4, e, 1) THEN Fail("Incomplete")
  ELSE IF ~Has(p + 5, e, 3) THEN Fail("Incomplete")
  ELSE R("ok", p, I8(b, p + 4))
ParseLrv(b, p, e) ==
  LET h == HdrRead(b, p, e, Ch_b, 1, 1) IN
  IF h.st # "ok" THEN Fail(h.st)
  ELSE IF ~Has(p + 4, e, 1) THEN Fail("Incomplete")
  ELSE IF ~Has(p + 5, e, 3) THEN Fail("Incomplete")
  ELSE R("ok", p + 8, I8(b, p + 4))
ParseLrvo(b, p, e) == ParseLrv(b, p, e)
ParseLrvs(b, p, e) == ParseLrv(b, p, e)

\* parse_gpsp: tag S, size 2, count 1, be_u16, tag(&[0,0]).
ParseGpsp(b, p, e) ==
  LET h == HdrRead(b, p, e, Ch_S, 2, 1) IN
  IF h.st # "ok" THEN Fail(h.st)
  ELSE IF ~Has(p + 4, e, 2) THEN Fail("Incomplete")
  ELSE LET z == Tag00St(b, p + 6, e) IN
       IF z # "ok" THEN Fail(z) ELSE R("ok", p + 8, U16(b, p + 4))

\* parse_gps5: tag l, take(size*count), no padding.
ParseGps5(b, p, e) ==
  LET h == HdrRead(b, p, e, Ch_l, NoAssert, NoAssert)
      n == h.size * h.count IN
  IF h.st # "ok" THEN Fail(h.st)
  ELSE IF ~Has(p + 4, e, n) THEN Fail("Incomplete")
  ELSE R("ok", p + 4 + n, Take(b, p + 4, n))

\* parse_custom: from_utf8(key).unwrap(), tag ?, take(size*count), padding.
ParseCustom(kb, b, p, e) ==
  IF ~Utf8Ok(kb) THEN Fail("Panic")
  ELSE LET h == HdrRead(b, p, e, Ch_Q, NoAssert, NoAssert)
           n == h.size * h.count IN
  IF h.st # "ok" THEN Fail(h.st)
  ELSE IF ~Has(p + 4, e, n) THEN Fail("Incomplete")
  ELSE Pad(b, p + 4 + n, e, n, <<kb, Take(b, p + 4, n)>>)

\* parse_devc / parse_strm header: tag 0, size, count, take(size*count).
\* Returns the end offset of the nested sub-buffer in nx.
ParseContainerHdr(b, p, e) ==
  LET h == HdrRead(b, p, e, 0, NoAssert, NoAssert)
      n == h.size * h.count IN
  IF h.st # "ok" THEN Fail(h.st)
  ELSE IF ~Has(p + 4, e, n) THEN Fail("Incomplete")
  ELSE R("ok", p + 4 + n, <<>>)

\* The non-container arms of parse_block; p is the offset after the key.
DecodeLeaf(k, kb, b, p, e) ==
  CASE k = "DVID" -> ParseDvid(b, p, e)
    [] k = "DVNM" -> ParseDvnm(b, p, e)
    [] k = "STMP" -> ParseStmp(b, p, e)
    [] k = "TSMP" -> ParseTsmp(b, p, e)
    [] k = "STNM" -> ParseStnm(b, p, e)
    [] k = "ORIN" -> ParseOrin(b, p, e)
    [] k = "SIUN" -> ParseSiun(b, p, e)
    [] k = "UNIT" -> ParseSiun(b, p, e)
    [] k = "SCAL" -> ParseScal(b, p, e)
    [] k = "TMPC" -> ParseTmpc(b, p, e)
    [] k = "ACCL" -> ParseAccl(b, p, e)
    [] k = "GYRO" -> ParseGyro(b, p, e)
    [] k = "SHUT" -> ParseShut(b, p, e)
    [] k = "WBAL" -> ParseWbal(b, p, e)
    [] k = "WRGB" -> ParseWrgb(b, p, e)
    [] k = "ISOE" -> ParseIsoe(b, p, e)
    [] k = "UNIF" -> ParseUnif(b, p, e)
    [] k = "TYPE" -> ParseType(b, p, e)
    [] k = "GPSF" -> ParseGpsf(b, p, e)
    [] k = "GPSU" -> ParseGpsu(b, p, e)
    [] k = "GPSP" -> ParseGpsp(b, p, e)
    [] k = "GPSA" -> ParseGpsa(b, p, e)
    [] k = "GPS5" -> ParseGps5(b, p, e)
    [] k = "CORI" -> ParseCori(b, p, e)
    [] k = "IORI" -> ParseIori(b, p, e)
    [] k = "GRAV" -> ParseGrav(b, p, e)
    [] k = "WNDM" -> ParseWndm(b, p, e)
    [] k = "MWET" -> ParseMwet(b, p, e)
    [] k = "AALP" -> ParseAalp(b, p, e)
    [] k = "MSKP" -> ParseMskp(b, p, e)
    [] k = "LRVO" -> ParseLrvo(b, p, e)
    [] k = "LRVS" -> ParseLrvs(b, p, e)
    [] k = "LSKP" -> ParseLskp(b, p, e)
    [] OTHER ->
         LET r == ParseCustom(kb, b, p, e) IN
         IF r.st = "ok" \/ r.st = "Panic" THEN r ELSE Fail("Failure:Tag")

\* ------------------------------------------------------------- inputs
\* Bounds of the enumerated inputs.
MaxCount == 2
TailLen == 4

\* Element type tag / element size each decoder of parse_block expects.
TagOf == [DEVC |-> 0, STRM |-> 0, DVID |-> Ch_L, DVNM |-> Ch_c, STMP |-> Ch_J,
          TSMP |-> Ch_L, STNM |-> Ch_c, ORIN |-> Ch_c, SIUN |-> Ch_c,
          UNIT |-> Ch_c, SCAL |-> Ch_s, TMPC |-> Ch_f, ACCL |-> Ch_s,
          GYRO |-> Ch_s, SHUT |-> Ch_f, WBAL |-> Ch_S, WRGB |-> Ch_f,
          ISOE |-> Ch_S, UNIF |-> Ch_f, TYPE |-> Ch_c, GPSF |-> Ch_L,
          GPSU |-> Ch_U, GPSP |-> Ch_S, GPSA |-> Ch_F, GPS5 |-> Ch_l,
          CORI |-> Ch_s, IORI |-> Ch_s, GRAV |-> Ch_s, WNDM |-> Ch_B,
          MWET |-> Ch_B, AALP |-> Ch_b, MSKP |-> Ch_s, LRVO |-> Ch_b,
          LRVS |-> Ch_b, LSKP |-> Ch_s]
SizeOf == [DEVC |-> 1, STRM |-> 1, DVID |-> 4, DVNM |-> 1, STMP |-> 8,
           TSMP |-> 4, STNM |-> 1, ORIN |-> 1, SIUN |-> 1, UNIT |-> 1,
           SCAL |-> 2, TMPC |-> 4, ACCL |-> 6, GYRO |-> 6, SHUT |-> 4,
           WBAL |-> 2, WRGB |-> 12, ISOE |-> 2, UNIF |-> 4, TYPE |-> 1,
           GPSF |-> 4, GPSU |-> 1, GPSP |-> 2, GPSA |-> 4, GPS5 |-> 4,
           CORI |-> 8, IORI |-> 8, GRAV |-> 6, WNDM |-> 2, MWET |-> 3,
           AALP |-> 2, MSKP |-> 2, LRVO |-> 1, LRVS |-> 1, LSKP |-> 2]
TextKeys == {"DVNM", "STNM", "ORIN", "SIUN", "UNIT", "TYPE", "GPSU"}
UnitKeys == {"SIUN", "UNIT"}
CustomKeys == {<<65,66,67,68>>, <<255,66,67,68>>}

Hdr(kb, t, s, c) == kb \o <<t, s, c \div 256, c % 256>>
Rep(x, n) == [i \in 1..n |-> x]
Pat(v, L) ==
  [i \in 1..L |->
     CASE v = "Inc"     -> (IF i % 2 = 0 THEN i \div 2 ELSE 0)
       [] v = "A"       -> 65
       [] v = "B2end"   -> (IF i = L THEN 178 ELSE 65)
       [] v = "B2first" -> (IF i = 1 THEN 178 ELSE 65)
       [] v = "Sup2"    -> (IF i = 1 THEN 194 ELSE IF i = 2 THEN 178 ELSE 65)
       [] OTHER         -> (IF i = 1 THEN 255 ELSE 65)]
TagOpts(k) == IF k = "SCAL" THEN {Ch_s, Ch_l, Ch_f} ELSE {TagOf[k], Ch_Q}
SizeOpts(k) == IF k \in TextKeys THEN {1, 2, 3}
               ELSE IF k = "SCAL" THEN {2, 4}
               ELSE IF k = "GPS5" THEN {1, 4}
               ELSE {SizeOf[k], SizeOf[k] + 1}
PatOpts(k) == IF k \in TextKeys THEN {"A", "B2end", "B2first", "Sup2", "Bad"} ELSE {"Inc"}
Prefixes(s) == {SubSeq(s, 1, n) : n \in 0..Len(s)}

\* One record: header, payload of size*count bytes, TailLen trailing bytes
\* of value q; every prefix with q = 0, the whole buffer with q = 0xEE.
RecBufs(kb, t, s, c, v) ==
  LET body == Hdr(kb, t, s, c) \o Pat(v, s * c) IN
  Prefixes(body \o Rep(0, TailLen)) \cup {body \o Rep(238, TailLen)}
KnownRecInputs ==
  UNION {UNION {RecBufs(KeyBytes[k], t, s, c, v) :
                  t \in TagOpts(k), s \in SizeOpts(k), c \in 0..MaxCount, v \in PatOpts(k)} :
         k \in KnownKeys \ ContainerKeys}
CustomRecInputs ==
  UNION {RecBufs(kb, t, s, c, "Inc") : kb \in CustomKeys, t \in {Ch_Q, Ch_c}, s \in {1, 2}, c \in 0..MaxCount}

ContainerRecInputs ==
  UNION {RecBufs(KeyBytes[k], t, 1, c, "Inc") : k \in ContainerKeys, t \in {0, Ch_Q}, c \in 0..MaxCount}

\* Well-formed and malformed records used as children / sequence items.
GroupSlack == 2
RecTsmp == Hdr(KeyBytes["TSMP"], Ch_L, 4, 1) \o <<0, 0, 0, 100>>
RecCust == Hdr(<<65,66,67,68>>, Ch_Q, 1, 3) \o <<1, 2, 3, 0>>
RecDvnm == Hdr(KeyBytes["DVNM"], Ch_c, 1, 2) \o <<65, 66, 0, 0>>
RecShut == Hdr(KeyBytes["SHUT"], Ch_f, 4, 1) \o <<0, 0, 0, 1>>
RecBadTag == Hdr(KeyBytes["TSMP"], Ch_Q, 4, 1) \o <<0, 0, 0, 1>>
RecBadCust == Hdr(<<65,66,67,68>>, Ch_c, 1, 3) \o <<1, 2, 3, 0>>
Group(k, n, body) == Hdr(KeyBytes[k], 0, 1, n) \o body
Bodies == {<<>>, RecTsmp, RecCust, RecDvnm \o RecTsmp, RecShut, RecBadTag, RecTsmp \o RecBadCust}
GroupInputs ==
  {Group(k, Len(body) + d, body) \o tail :
     k \in ContainerKeys, body \in Bodies \ {<<>>}, d \in {-GroupSlack, 0, GroupSlack}, tail \in {<<>>, RecTsmp}}
  \cup {Group(k, 0, <<>>) \o tail : k \in ContainerKeys, tail \in {<<>>, RecTsmp}}
NestedInputs ==
  {Group("DEVC", 8 + Len(body), Group("STRM", Len(body), body)) \o tail :
     body \in Bodies, tail \in {<<>>, RecCust}}
  \cup {Group("DEVC", 16 + Len(RecTsmp), Group("STRM", 8 + Len(RecTsmp),
          Group("DEVC", Len(RecTsmp), RecTsmp)))}
SeqInputs == {r1 \o r2 : r1, r2 \in {RecTsmp, RecCust, RecShut, RecBadTag}}

Inputs == KnownRecInputs \cup CustomRecInputs \cup ContainerRecInputs
          \cup GroupInputs \cup NestedInputs \cup SeqInputs

\* --------------------------------------------------------- the decoder
\* levels: the stack of active parser() calls; levels[1] is the top-level
\* call over the whole buffer, each further entry a parser(block_bytes)
\* call of parse_devc / parse_strm whose sub-buffer ends at offset end.
\* last: the most recent parse_block step (its key, start offset, bound,
\* outcome, next offset and decoded value).
NoEvent == [act |-> "none", key |-> "none", kb |-> <<>>, start |-> -1, e |-> -1,
            st |-> "none", nx |-> -1, v |-> <<>>, depth |-> 0]
Top == levels[Len(levels)]
AtEnd == pos = Top.end
\* Variant exiting as soon as the input is empty (while !input.is_empty()).
LoopDoneWhile == AtEnd
\* parser(): `if input == b"" { break }`, tested only after a record was pushed.
LoopDone == AtEnd /\ Top.recs # <<>>

Init ==
  /\ buf \in Inputs
  /\ pos = 0
  /\ levels = <<[start |-> 0, end |-> Len(buf), key |-> "top", recs |-> <<>>]>>
  /\ status = "run"
  /\ last = NoEvent

\* Variant that skips past a failing record's key and carries on.
ParseBlockResync ==
  /\ status = "run"
  /\ ~LoopDone
  /\ LET e == Top.end
         kb == IF Has(pos, e, 4) THEN Take(buf, pos, 4) ELSE <<>>
         k == IF Has(pos, e, 4) THEN KeyName(kb) ELSE "none"
         r == IF Has(pos, e, 4) THEN DecodeLeaf(k, kb, buf, pos + 4, e) ELSE Fail("Incomplete")
     IN /\ k \notin ContainerKeys
        /\ last' = [act |-> "leaf", key |-> k, kb |-> kb, start |-> pos, e |-> e,
                    st |-> r.st, nx |-> r.nx, v |-> r.v, depth |-> Len(levels)]
        /\ IF r.st = "ok"
           THEN /\ pos' = r.nx
                /\ levels' = [levels EXCEPT ![Len(levels)].recs =
                                @ \o <<[k |-> IF k = "other" THEN "Custom" ELSE k, v |-> r.v]>>]
                /\ UNCHANGED status
           ELSE IF k # "none"
                THEN /\ pos' = pos + 4
                     /\ UNCHANGED <<status, levels>>
                ELSE /\ status' = r.st
                     /\ UNCHANGED <<pos, levels>>
  /\ UNCHANGED buf

\* parser(): one loop iteration calling parse_block on a non-container
\* record (or on fewer than 4 remaining bytes); the loop only exits after
\* a record, so an empty sub-buffer reaches parse_block too.
ParseBlock ==
  /\ status = "run"
  /\ ~LoopDone
  /\ LET e == Top.end
         kb == IF Has(pos, e, 4) THEN Take(buf, pos, 4) ELSE <<>>
         k == IF Has(pos, e, 4) THEN KeyName(kb) ELSE "none"
         r == IF Has(pos, e, 4) THEN DecodeLeaf(k, kb, buf, pos + 4, e) ELSE Fail("Incomplete")
     IN /\ k \notin ContainerKeys
        /\ last' = [act |-> "leaf", key |-> k, kb |-> kb, start |-> pos, e |-> e,
                    st |-> r.st, nx |-> r.nx, v |-> r.v, depth |-> Len(levels)]
        /\ IF r.st = "ok"
           THEN /\ pos' = r.nx
                /\ levels' = [levels EXCEPT ![Len(levels)].recs =
                                @ \o <<[k |-> IF k = "other" THEN "Custom" ELSE k, v |-> r.v]>>]
                /\ UNCHANGED status
           ELSE /\ status' = r.st
                /\ UNCHANGED <<pos, levels>>
  /\ UNCHANGED buf

\* parse_block on DEVC / STRM: the container header, then parser(block_bytes).
\* The nested parser() is a native recursive call (parse_block -> parse_devc /
\* parse_strm -> parser) with no depth limit in the code: once the nesting is
\* deep enough the thread's stack is exhausted and the process aborts. The depth
\* at which that happens depends on the stack the caller runs on and on the
\* build's frame sizes, so from nesting depth StackLimitMin on, entering the
\* nested parser may either proceed or abort ("StackOverflow").
StackLimitMin == 2
OpenContainer ==
  /\ status = "run"
  /\ ~LoopDone
  /\ Has(pos, Top.end, 4)
  /\ KeyName(Take(buf, pos, 4)) \in ContainerKeys
  /\ LET k == KeyName(Take(buf, pos, 4))
         h == ParseContainerHdr(buf, pos + 4, Top.end)
         ev(a, st) == [act |-> a, key |-> k, kb |-> Take(buf, pos, 4), start |-> pos,
                       e |-> Top.end, st |-> st, nx |-> h.nx, v |-> <<>>, depth |-> Len(levels)]
     IN IF h.st = "ok"
        THEN \/ /\ last' = ev("open", h.st)
                /\ levels' = Append(levels, [start |-> pos, end |-> h.nx, key |-> k, recs |-> <<>>])
                /\ pos' = pos + 8
                /\ UNCHANGED status
             \/ /\ Len(levels) >= StackLimitMin
                /\ last' = ev("overflow", "StackOverflow")
                /\ status' = "StackOverflow"
                /\ UNCHANGED <<pos, levels>>
        ELSE /\ last' = ev("open", h.st)
             /\ status' = h.st
             /\ UNCHANGED <<pos, levels>>
  /\ UNCHANGED buf

\* The nested parser() returns (input empty after a record): the
\* assert_eq!(trailing_bytes.len(), 0) holds and the container record is
\* appended to the enclosing parser's list.
CloseContainer ==
  /\ status = "run"
  /\ Len(levels) > 1
  /\ LoopDone
  /\ LET n == Len(levels) IN
     levels' = [SubSeq(levels, 1, n - 1) EXCEPT ![n - 1].recs =
                  @ \o <<[k |-> IF Top.key = "DEVC" THEN "DeviceSource" ELSE "Stream",
                          v |-> Top.recs]>>]
  /\ last' = [act |-> "close", key |-> Top.key, kb |-> Take(buf, Top.start, 4),
               start |-> Top.start, e |-> Top.end, st |-> "ok", nx |-> Top.end,
               v |-> Top.recs, depth |-> Len(levels)]
  /\ UNCHANGED <<buf, pos, status>>

\* The top-level parser() returns Ok with its list.
Finish ==
  /\ status = "run"
  /\ Len(levels) = 1
  /\ LoopDone
  /\ status' = "ok"
  /\ UNCHANGED <<buf, pos, levels, last>>

Next == ParseBlock \/ OpenContainer \/ CloseContainer \/ Finish

Spec == Init /\ [][Next]_vars

\* What parser(input) returns: the record list on Ok, else the error.
Returned == IF status = "ok" THEN levels[1].recs ELSE status

\* ------------------------------------------------------------- claims
\* Header fields of the record the last parse_block step decoded.
EvTag == B(buf, last.start + 4)
EvSize == B(buf, last.start + 5)
EvCount == U16(buf, last.start + 6)
EvL == EvSize * EvCount
HdrPresent == last.start + 8 <= last.e
PadLen(L) == ((L + 3) \div 4) * 4 - L
WithBytes(b, lo, hi, x) == [i \in 1..Len(b) |-> IF i - 1 >= lo /\ i - 1 < hi THEN x ELSE b[i]]
Payload == SubSeq(buf, last.start + 9, last.start + 8 + EvL)
LeafOk == last.act = "leaf" /\ last.st = "ok"

\* C1: a successfully decoded leaf record with payload length L = size*count
\* is followed by exactly PadLen(L) padding bytes, and overwriting those
\* padding bytes changes neither the decoded value nor success.
C1_PaddingLaw ==
  LeafOk =>
    /\ last.nx = last.start + 8 + EvL + PadLen(EvL)
    /\ \A x \in {0, 238} :
         LET b2 == WithBytes(buf, last.start + 8 + EvL, last.start + 8 + EvL + PadLen(EvL), x)
             r == DecodeLeaf(last.key, last.kb, b2, last.start + 4, last.e)
         IN r.st = "ok" /\ r.v = last.v

\* C2 expectations: element size asserted per key, keys whose count is asserted to 1.
SizeKeys == KnownKeys \ (TextKeys \cup ContainerKeys \cup {"GPS5"})
SingleKeys == {"DVID", "STMP", "TSMP", "TMPC", "GPSF", "GPSU", "GPSP", "GPSA", "LRVO", "LRVS"}
TagBad == IF last.key = "SCAL" THEN EvTag \notin {Ch_s, Ch_l} ELSE EvTag # TagOf[last.key]
SizeBad == /\ ~TagBad /\ last.key \in SizeKeys
           /\ EvSize # (IF last.key = "SCAL" THEN (IF EvTag = Ch_s THEN 2 ELSE 4) ELSE SizeOf[last.key])
CountBad == /\ ~TagBad
            /\ (last.key \in SingleKeys \/ (last.key = "SCAL" /\ EvTag = Ch_s))
            /\ EvCount # 1

\* C2: for a known key whose header has a wrong tag, size or (single-scalar
\* keys) count, the decode returns the tag-mismatch error value (no abort,
\* no record).
C2_FormatMismatch ==
  (last.act \in {"leaf", "open"} /\ last.key \in KnownKeys /\ HdrPresent
   /\ (TagBad \/ SizeBad \/ CountBad))
  => last.st = "Error:Tag"

\* C3: a failure of any record at any depth ends the whole decode with that
\* very error (no partial list), and after it nothing more is decoded.
C3_AbortWhole ==
  /\ [][status # "run" => UNCHANGED <<pos, levels, status>>]_vars
  /\ []((last.act \in {"leaf", "open"} /\ last.st # "ok") => (status = last.st /\ Returned = last.st))
C3_Witness ==
  last.act \in {"leaf", "open"} /\ last.st \notin {"ok", "Panic"} /\ last.depth >= 2 /\ status = last.st

\* C4: a container (tag 0) consumes exactly its N = size*count payload bytes,
\* children that do not consume the N-byte sub-buffer exactly give
\* TrailingData, and a sub-buffer holding exactly one child gives a
\* container of that child.
OneChild ==
  LET kb == Take(buf, last.start + 8, 4)
      r == DecodeLeaf(KeyName(kb), kb, buf, last.start + 12, last.e)
  IN [ok |-> last.e >= last.start + 12 /\ KeyName(kb) \notin ContainerKeys /\ r.st = "ok" /\ r.nx = last.e,
      rec |-> [k |-> IF KeyName(kb) = "other" THEN "Custom" ELSE KeyName(kb), v |-> r.v]]
C4_ContainerExact ==
  /\ (last.act = "open" /\ last.st = "ok") => last.nx = last.start + 8 + EvL
  /\ (status \notin {"run", "ok"} /\ last.depth >= 2 /\ last.st = "Incomplete"
      /\ Top.end > Top.start + 8) => status = "TrailingData"
  /\ (last.act = "close" /\ last.e >= last.start + 12 /\ OneChild.ok) => last.v = <<OneChild.rec>>

\* C5 (as stated): a unit string of size S, count C yields (S-1)*C text bytes,
\* and with C = 1 and a trailing 0xB2 the text is the S-1 bytes with that
\* byte replaced by '2'.
C5_UnitLenSpec ==
  (LeafOk /\ last.key \in UnitKeys) =>
    /\ Len(last.v) = (EvSize - 1) * EvCount
    /\ last.nx = last.start + 8 + (EvSize - 1) * EvCount + PadLen((EvSize - 1) * EvCount)
\* C5 (amended): a unit string of size S, count C consumes S*C text bytes and
\* pads from S*C; with C = 1 and final payload byte 0xB2 the text ends in
\* '2' and is the S payload bytes with every 0xB2 replaced by '2'.
C5_UnitLen ==
  (LeafOk /\ last.key \in UnitKeys) =>
    /\ Len(last.v) = EvL
    /\ last.nx = last.start + 8 + EvL + PadLen(EvL)
    /\ (EvCount = 1 /\ EvSize >= 1 /\ Payload[EvSize] = 178) =>
         /\ last.v[EvSize] = Ch_2
         /\ \A i \in 1..EvSize : last.v[i] = IF Payload[i] = 178 THEN Ch_2 ELSE Payload[i]
C5_Witness ==
  LeafOk /\ last.key \in UnitKeys /\ EvCount = 1 /\ EvSize >= 2 /\ Payload[EvSize] = 178

UnitRead == /\ last.act = "leaf" /\ last.key \in UnitKeys /\ HdrPresent /\ EvTag = Ch_c
            /\ last.start + 8 + EvL + PadLen(EvL) <= last.e
\* C6 (as stated): only a trailing 0xB2 becomes '2'; every other byte reaches
\* UTF-8 decoding unchanged.
C6_OnlyTrailing ==
  UnitRead =>
    LET T == [i \in 1..EvL |-> IF i = EvL /\ Payload[i] = 178 THEN Ch_2 ELSE Payload[i]] IN
    IF Utf8Ok(T) THEN last.st = "ok" /\ last.v = T ELSE last.st # "ok"
\* C6 (amended): every 0xB2 byte of the unit text, at any position, becomes
\* '2'; every other byte reaches UTF-8 decoding unchanged.
C6_EveryB2 ==
  UnitRead =>
    LET T == [i \in 1..EvL |-> IF Payload[i] = 178 THEN Ch_2 ELSE Payload[i]] IN
    IF Utf8Ok(T) THEN last.st = "ok" /\ last.v = T ELSE last.st # "ok"
C6_Witness ==
  UnitRead /\ last.st = "ok" /\ \E i \in 1..EvL : i < EvL /\ Payload[i] = 178

\* C7: a text record whose (unit-corrected) payload is not UTF-8 gives an
\* error value, not an abort.
C7_InvalidText ==
  (/\ last.act = "leaf" /\ last.key \in TextKeys /\ HdrPresent
   /\ EvTag = TagOf[last.key] /\ (last.key = "GPSU" => EvCount = 1)
   /\ last.start + 8 + EvL <= last.e
   /\ ~Utf8Ok(IF last.key \in UnitKeys
              THEN [i \in 1..EvL |-> IF Payload[i] = 178 THEN Ch_2 ELSE Payload[i]]
              ELSE Payload))
  => last.st \notin {"ok", "Panic"}

\* C8: an unknown key with tag '?' and its payload present gives a Custom
\* record of the key bytes and the size*count payload bytes, skipping the
\* padding; UnknownBlockType exactly when the tag is not '?'.
C8_Fallback ==
  (last.act = "leaf" /\ last.key = "other") =>
    /\ (HdrPresent /\ EvTag = Ch_Q /\ last.start + 8 + EvL + PadLen(EvL) <= last.e)
         => (last.st = "ok" /\ last.v = <<last.kb, Payload>>
             /\ last.nx = last.start + 8 + EvL + PadLen(EvL))
    /\ (last.st = "Failure:Tag") <=> (last.start + 5 <= last.e /\ EvTag # Ch_Q)

\* C9: SCAL branches on the tag: 's' (size 2, count 1) one i16, 'l' (size 4)
\* count i32 values, any other tag the tag-mismatch error value.
C9_ScalShapes ==
  (last.act = "leaf" /\ last.key = "SCAL" /\ last.start + 5 <= last.e) =>
    /\ (EvTag = Ch_s /\ HdrPresent /\ EvSize = 2 /\ EvCount = 1 /\ last.start + 12 <= last.e)
         => (last.st = "ok" /\ last.v = I16(buf, last.start + 8))
    /\ (EvTag = Ch_l /\ HdrPresent /\ EvSize = 4 /\ last.start + 8 + 4 * EvCount <= last.e)
         => (last.st = "ok" /\ Len(last.v) = EvCount
             /\ \A i \in 1..EvCount : last.v[i] = I32(buf, last.start + 8 + 4 * (i - 1)))
    /\ EvTag \notin {Ch_s, Ch_l} => last.st = "Error:Tag"

\* C10: when the input ends before a requested read completes, the decode
\* fails with Incomplete and no record: any other outcome is one that more
\* input bytes after the end could not change.
ExtLen == 64
ExtOutcome(x) ==
  LET b2 == SubSeq(buf, 1, last.e) \o Rep(x, ExtLen)
      r == IF last.act = "open" THEN ParseContainerHdr(b2, last.start + 4, last.e + ExtLen)
           ELSE DecodeLeaf(last.key, last.kb, b2, last.start + 4, last.e + ExtLen)
  IN <<r.st, r.nx, r.v>>
C10_Insufficient ==
  (last.act \in {"leaf", "open"} /\ last.key # "none") =>
    /\ (last.st = "Incomplete" \/ \A x \in {0, 238} : ExtOutcome(x) = <<last.st, last.nx, last.v>>)
    /\ (last.st = "Incomplete" => status = "Incomplete")

\* Record names of a wire-format split of b[p..e): each record is 8 header
\* bytes, size*count payload bytes and, outside containers, the padding to
\* a multiple of 4; "bad" marks a split that does not end exactly at e.
RECURSIVE WireWalk(_, _, _)
WireWalk(b, p, e) ==
  IF p = e THEN <<>>
  ELSE IF p + 8 > e THEN <<"bad">>
  ELSE LET k == KeyName(Take(b, p, 4))
           L == B(b, p + 5) * U16(b, p + 6)
           len == IF k \in ContainerKeys THEN 8 + L ELSE 8 + L + PadLen(L)
           name == CASE k = "other" -> "Custom"
                     [] k = "DEVC" -> "DeviceSource"
                     [] k = "STRM" -> "Stream"
                     [] OTHER -> k
       IN IF p + len > e THEN <<"bad">> ELSE <<name>> \o WireWalk(b, p + len, e)

\* C11: on success the top-level list has one record per encoded record of
\* the buffer, in buffer order, and the encoded lengths add up to the input.
C11_OnePerRecord ==
  status = "ok" =>
    WireWalk(buf, 0, Len(buf)) = [i \in 1..Len(levels[1].recs) |-> levels[1].recs[i].k]

\* C12 element readers per tuple-list key and per single-scalar key.
\* Claimed element shapes: per key, the number of nesting levels of one
\* decoded element (1 = a flat tuple, 2 = a tuple of f32 values), the byte
\* width of each leaf integer and whether it is signed.  f32 / u32 / u64
\* leaves are the unsigned 16-bit limbs of their bit pattern.
TupleShape == [ACCL |-> <<1, 2, TRUE>>, GYRO |-> <<1, 2, TRUE>>, GRAV |-> <<1, 2, TRUE>>,
               CORI |-> <<1, 2, TRUE>>, IORI |-> <<1, 2, TRUE>>, SHUT |-> <<1, 2, FALSE>>,
               UNIF |-> <<1, 2, FALSE>>, WBAL |-> <<0, 2, FALSE>>, ISOE |-> <<0, 2, FALSE>>,
               WRGB |-> <<2, 2, FALSE>>, WNDM |-> <<1, 1, FALSE>>, MWET |-> <<1, 1, FALSE>>,
               AALP |-> <<1, 1, TRUE>>, MSKP |-> <<0, 2, TRUE>>, LSKP |-> <<0, 2, TRUE>>]
ScalarShape == [DVID |-> <<1, 1, FALSE>>, STMP |-> <<1, 2, FALSE>>, TSMP |-> <<1, 2, FALSE>>,
                TMPC |-> <<1, 2, FALSE>>, GPSF |-> <<1, 2, FALSE>>, GPSA |-> <<1, 1, FALSE>>]
\* Concatenation of a sequence of sequences.
RECURSIVE Concat(_)
Concat(s) == IF s = <<>> THEN <<>> ELSE Head(s) \o Concat(Tail(s))
\* The leaf integers of an element with d nesting levels, in order.
Leaves(x, d) ==
  CASE d = 0 -> <<x>>
    [] d = 1 -> x
    [] d = 2 -> Concat(x)
\* Big-endian w-byte two's-complement encoding of the integer n.
EncBE(n, w) ==
  IF w = 1 THEN <<n % 256>> ELSE <<(n % 65536) \div 256, n % 256>>
InRange(n, w, sgn) ==
  IF sgn THEN -(2^(8 * w - 1)) <= n /\ n < 2^(8 * w - 1) ELSE 0 <= n /\ n < 2^(8 * w)
\* The values vs (of shape sh) are the payload bytes pl read big-endian, in
\* order: each leaf is in its type's range and re-encoding every leaf
\* big-endian, element after element, gives back exactly pl.
ReadsBE(vs, sh, pl) ==
  LET lv == Concat([i \in 1..Len(vs) |-> Leaves(vs[i], sh[1])])
  IN /\ \A j \in 1..Len(lv) : InRange(lv[j], sh[2], sh[3])
     /\ Concat([j \in 1..Len(lv) |-> EncBE(lv[j], sh[2])]) = pl

FairSpec == Spec /\ WF_vars(Next)

\* C13: every decode terminates; each step that keeps decoding advances the
\* position by at least 8 bytes or returns from a nested parser(), and the
\* nesting depth is bounded by the input length.
C13_Terminates ==
  /\ <>(status # "run")
  /\ [][status' = "run" => (pos' >= pos + 8 \/ Len(levels') < Len(levels))]_vars
  /\ [](Len(levels) - 1 <= Len(buf) \div 8)
C13_Witness == status # "run" /\ Len(levels) >= 3

\* C14: an empty slice fails with Incomplete rather than giving an empty
\* list, at top level and as the sub-buffer of a container of length 0;
\* no container is ever returned with zero children.
C14_EmptyFails ==
  /\ (Len(buf) = 0 /\ status # "run") => (status = "Incomplete" /\ Returned = "Incomplete")
  /\ (Len(levels) >= 2 /\ Top.end = Top.start + 8 /\ status # "run") => status = "Incomplete"
  /\ last.act = "close" => last.v # <<>>
C14_Witness ==
  \/ Len(levels) >= 2 /\ Top.end = Top.start + 8 /\ status = "Incomplete"
  \/ Len(buf) = 0 /\ status = "Incomplete"

\* C15: every successful non-container record consumes a multiple of 4
\* bytes, the position stays 4-aligned relative to the start of the
\* enclosing buffer, and no container of length N with N % 4 # 0 decodes.
C15_Aligned ==
  /\ LeafOk => (last.nx - last.start) % 4 = 0
  /\ (pos - (IF Len(levels) = 1 THEN 0 ELSE Top.start + 8)) % 4 = 0
  /\ last.act = "close" => (last.e - last.start - 8) % 4 = 0

====
